---- MODULE Spec2Model ----
(***************************************************************************)
(* Model of the /generate pipeline of main.py: request validation,         *)
(* Message.validate, ImageGenerator._wrap_text, ImageGenerator._get_avatar *)
(* and the two-pass ImageGenerator.generate (measure, allocate, draw).     *)
(*                                                                         *)
(* Strings the code inspects character by character (message bodies and    *)
(* colours) are sequences of one-character strings.  Glyph advances are    *)
(* those of a very wide face, so that bodies of a few glyphs reach the     *)
(* wrap width of 704 pixels.                                               *)
(***************************************************************************)
EXTENDS Integers, Sequences, FiniteSets, TLC

\* ---------------------------------------------------------------- Config
\* Limits read from the environment (defaults 50 and 2000), kept small here.
MAX_MESSAGES == 2
MAX_MESSAGE_LENGTH == 3

FONT_SIZE == 14
USERNAME_FONT_SIZE == 16
MESSAGE_PADDING == 20
AVATAR_SIZE == 40
MESSAGE_SPACING == 16
MAX_WIDTH == 800

\* Longest text the wrap-only specification feeds to _wrap_text.
MaxTextLen == 5

\* ------------------------------------------------------------ str helpers
\* The characters str.split() treats as separators (those of the alphabet).
IsSpaceOnlyBlank(c) == c = " "

IsSpace(c) == c \in {" ", "\n"}

RECURSIVE split_rec(_, _, _)
split_rec(text, cur, acc) ==
    IF text = <<>>
    THEN IF cur # <<>> THEN Append(acc, cur) ELSE acc
    ELSE IF IsSpace(Head(text))
         THEN split_rec(Tail(text), <<>>, IF cur # <<>> THEN Append(acc, cur) ELSE acc)
         ELSE split_rec(Tail(text), Append(cur, Head(text)), acc)

\* text.split(): the maximal runs of non-whitespace characters, in order.
split(text) == split_rec(text, <<>>, <<>>)

RECURSIVE join(_, _)
\* sep.join(parts)
join(sep, parts) ==
    IF parts = <<>> THEN <<>>
    ELSE IF Len(parts) = 1 THEN parts[1]
    ELSE parts[1] \o sep \o join(sep, Tail(parts))

RECURSIVE textlength(_)
\* draw.textlength(text, font): the sum of the glyph advances.
textlength(s) ==
    IF s = <<>> THEN 0
    ELSE (CASE Head(s) = "a" -> 300
            [] Head(s) = "W" -> 500
            [] OTHER -> 100) + textlength(Tail(s))

\* ------------------------------------------------------------- _wrap_text
RECURSIVE wrap_loop_drop(_, _, _, _)
wrap_loop_drop(words, current_line, lines, max_width) ==
    IF words = <<>>
    THEN IF current_line # <<>> THEN Append(lines, join(<<" ">>, current_line)) ELSE lines
    ELSE LET word == Head(words)
             test_line == join(<<" ">>, Append(current_line, word))
         IN IF textlength(test_line) <= max_width
            THEN wrap_loop_drop(Tail(words), Append(current_line, word), lines, max_width)
            ELSE wrap_loop_drop(Tail(words), <<>>,
                           IF current_line # <<>>
                           THEN Append(lines, join(<<" ">>, current_line))
                           ELSE lines,
                           max_width)

RECURSIVE wrap_loop(_, _, _, _)
\* The for loop of _wrap_text and the flush after it.
wrap_loop(words, current_line, lines, max_width) ==
    IF words = <<>>
    THEN IF current_line # <<>> THEN Append(lines, join(<<" ">>, current_line)) ELSE lines
    ELSE LET word == Head(words)
             test_line == join(<<" ">>, Append(current_line, word))
         IN IF textlength(test_line) <= max_width
            THEN wrap_loop(Tail(words), Append(current_line, word), lines, max_width)
            ELSE wrap_loop(Tail(words), <<word>>,
                           IF current_line # <<>>
                           THEN Append(lines, join(<<" ">>, current_line))
                           ELSE lines,
                           max_width)

_wrap_text(text, max_width) == wrap_loop(split(text), <<>>, <<>>, max_width)

\* The width generate passes to _wrap_text in both passes.
WrapWidth == MAX_WIDTH - MESSAGE_PADDING * 2 - AVATAR_SIZE - MESSAGE_SPACING

\* ---------------------------------------------------------------- Message
\* The hexadecimal digits int(s, 16) accepts, with their values.
HexDigits == <<"0", "1", "2", "3", "4", "5", "6", "7", "8", "9",
               "a", "b", "c", "d", "e", "f">>

HexVal(c) == (CHOOSE v \in 1..16 : HexDigits[v] = c) - 1

IsHex(c) == \E v \in 1..16 : HexDigits[v] = c

\* color.startswith('#')
startswith_hash(color) == color # <<>> /\ color[1] = "#"

RECURSIVE lstrip_hash(_)
\* color.lstrip('#')
lstrip_hash(color) ==
    IF color # <<>> /\ color[1] = "#" THEN lstrip_hash(Tail(color)) ELSE color

\* color[i:i+2] with Python's clamping of the slice to the string.
slice2(color, i) ==
    SubSeq(color, i + 1, IF i + 2 <= Len(color) THEN i + 2 ELSE Len(color))

\* int(s, 16) on a slice of at most two characters: a ValueError unless the
\* slice is non-empty and all hexadecimal.
int16(s) ==
    IF s = <<>> \/ \E k \in 1..Len(s) : ~IsHex(s[k])
    THEN [raised |-> TRUE, value |-> 0]
    ELSE [raised |-> FALSE,
          value |-> IF Len(s) = 1 THEN HexVal(s[1])
                    ELSE 16 * HexVal(s[1]) + HexVal(s[2])]

validate_no_username_check(m) ==
    IF Len(m.message) > MAX_MESSAGE_LENGTH
    THEN [raised |-> TRUE, msg |-> m]
    ELSE [raised |-> FALSE,
          msg |-> IF startswith_hash(m.color) THEN m
                  ELSE [m EXCEPT !.color = <<"#">> \o m.color]]

\* Message.validate: a ValueError, or the message with its colour normalised.
validate(m) ==
    IF Len(m.message) > MAX_MESSAGE_LENGTH
    THEN [raised |-> TRUE, msg |-> m]
    ELSE IF m.username = ""
    THEN [raised |-> TRUE, msg |-> m]
    ELSE [raised |-> FALSE,
          msg |-> IF startswith_hash(m.color) THEN m
                  ELSE [m EXCEPT !.color = <<"#">> \o m.color]]

\* Message.get_color_rgb: the three channels, or the ValueError of int().
get_color_rgb(m) ==
    LET color == lstrip_hash(m.color)
        r == int16(slice2(color, 0))
        g == int16(slice2(color, 2))
        b == int16(slice2(color, 4))
    IN [raised |-> r.raised \/ g.raised \/ b.raised,
        rgb |-> <<r.value, g.value, b.value>>]

\* Message(...) as generate_image builds it from one record of the request:
\* a KeyError when username or message is missing, defaults for the rest.
construct(msg_data) ==
    IF "username" \notin msg_data.keys \/ "message" \notin msg_data.keys
    THEN [raised |-> TRUE,
          msg |-> [username |-> "", message |-> <<>>, color |-> <<>>,
                   timestamp |-> "", avatar_url |-> ""]]
    ELSE [raised |-> FALSE,
          msg |-> [username |-> msg_data.username,
                   message |-> msg_data.message,
                   color |-> IF "color" \in msg_data.keys THEN msg_data.color
                             ELSE <<"#", "f", "f", "f", "f", "f", "f">>,
                   timestamp |-> "now",
                   avatar_url |-> IF "avatar_url" \in msg_data.keys
                                  THEN msg_data.avatar_url ELSE ""]]

\* ------------------------------------------------------------ _get_avatar
\* _create_default_avatar
default_avatar == [kind |-> "default", w |-> AVATAR_SIZE, h |-> AVATAR_SIZE]

\* What a fetch of a non-empty URL can do.
FetchOutcomes == {"ok", "non200", "exception", "timeout", "undecodable"}

\* Sizes of the image a successful fetch decodes to.
FetchedSizes == {[w |-> 40, h |-> 40], [w |-> 100, h |-> 60]}

_get_avatar_unguarded(avatar_url, outcome, size) ==
    IF avatar_url = "" THEN [raised |-> FALSE, tile |-> default_avatar]
    ELSE IF outcome = "ok"
    THEN [raised |-> FALSE,
          tile |-> [kind |-> "fetched", w |-> AVATAR_SIZE, h |-> AVATAR_SIZE]]
    ELSE IF outcome = "non200"
    THEN [raised |-> FALSE, tile |-> default_avatar]
    ELSE [raised |-> TRUE, tile |-> default_avatar]

\* _get_avatar: the placeholder for an empty URL, a non-200 answer and every
\* exception of the fetch or the decoding; else the image resized to the tile.
_get_avatar(avatar_url, outcome, size) ==
    IF avatar_url = "" THEN [raised |-> FALSE, tile |-> default_avatar]
    ELSE IF outcome = "ok"
    THEN [raised |-> FALSE,
          tile |-> [kind |-> "fetched", w |-> AVATAR_SIZE, h |-> AVATAR_SIZE]]
    ELSE IF outcome = "non200"
    THEN [raised |-> FALSE, tile |-> default_avatar]
    ELSE [raised |-> FALSE, tile |-> default_avatar]

\* --------------------------------------------------------------- generate
message_height_no_spacing(wrapped_lines) ==
    USERNAME_FONT_SIZE + Len(wrapped_lines) * (FONT_SIZE + 4)

\* message_height of the measure loop.
message_height(wrapped_lines) ==
    USERNAME_FONT_SIZE + Len(wrapped_lines) * (FONT_SIZE + 4) + MESSAGE_SPACING

\* The draw.text calls of the body lines, each with its text_y.
body_draws(i, wrapped_lines, y) ==
    [n \in 1..Len(wrapped_lines) |->
        [msg |-> i,
         y |-> y + USERNAME_FONT_SIZE + 4 + (n - 1) * (FONT_SIZE + 4),
         line |-> wrapped_lines[n]]]

draw_message_grouped(msgs, i, y, tile) ==
    LET message == msgs[i]
        first == i = 1 \/ msgs[i - 1].username # message.username
        colour == get_color_rgb(message)
        wrapped_lines == _wrap_text(message.message, WrapWidth)
    IN [pastes |-> IF first THEN <<[msg |-> i, y |-> y, w |-> tile.w, h |-> tile.h]>>
                   ELSE <<>>,
        raised |-> first /\ colour.raised,
        names |-> IF first /\ ~colour.raised
                  THEN <<[msg |-> i, y |-> y, username |-> message.username,
                          fill |-> colour.rgb]>>
                  ELSE <<>>,
        lines |-> wrapped_lines,
        texts |-> IF first /\ colour.raised THEN <<>>
                  ELSE body_draws(i, wrapped_lines, y)]

\* One iteration of the draw loop at cursor y, the avatar already resolved:
\* the paste, then the username (get_color_rgb may raise, which ends the
\* iteration), the timestamp and the body lines.
draw_message(msgs, i, y, tile) ==
    LET message == msgs[i]
        colour == get_color_rgb(message)
        wrapped_lines == _wrap_text(message.message, WrapWidth)
    IN [pastes |-> <<[msg |-> i, y |-> y, w |-> tile.w, h |-> tile.h]>>,
        raised |-> colour.raised,
        names |-> IF colour.raised THEN <<>>
                  ELSE <<[msg |-> i, y |-> y, username |-> message.username,
                          fill |-> colour.rgb]>>,
        lines |-> IF colour.raised THEN <<>> ELSE wrapped_lines,
        texts |-> IF colour.raised THEN <<>>
                  ELSE body_draws(i, wrapped_lines, y)]

\* len(data['messages']) > Config.MAX_MESSAGES
too_many_off_by_one(n) == n > MAX_MESSAGES + 1

too_many(n) == n > MAX_MESSAGES

\* ------------------------------------------------------------------ inputs
\* A body one character over the limit.
Overlong == [k \in 1..(MAX_MESSAGE_LENGTH + 1) |-> "a"]

\* Bodies within the limit: empty, two words around a line break that fit on
\* one line (700 <= 704), two words that do not fit on one line (1100 > 704).
Bodies == {<<>>, <<"a", "\n", "a">>, <<"W", " ", "W">>}

\* Colour and avatar URL as sent, <<>> and "" standing for an absent key:
\* neither; six hex digits without '#' and a URL; something that is not a hex
\* colour and a URL.
Decor == {[color |-> <<>>, avatar_url |-> ""],
          [color |-> <<"f", "f", "0", "0", "0", "0">>, avatar_url |-> "u"],
          [color |-> <<"r", "e", "d">>, avatar_url |-> "u"]}

\* One record of data['messages']; keys are the keys it carries.
RawMessage(keys, username, message, color, avatar_url) ==
    [keys |-> keys, username |-> username, message |-> message,
     color |-> color, avatar_url |-> avatar_url]

WellFormed ==
    {RawMessage({"username", "message"}
                    \cup (IF d.color # <<>> THEN {"color"} ELSE {})
                    \cup (IF d.avatar_url # "" THEN {"avatar_url"} ELSE {}),
                u, b, d.color, d.avatar_url) :
        u \in {"A", "B"}, b \in Bodies, d \in Decor}

Malformed ==
    {RawMessage({"message"}, "", <<"a">>, <<>>, ""),
     RawMessage({"username"}, "A", <<>>, <<>>, ""),
     RawMessage({"username", "message"}, "", <<"a">>, <<>>, ""),
     RawMessage({"username", "message"}, "A", Overlong, <<>>, "")}

RawMessages == WellFormed \cup Malformed

\* The message lists a request can carry: up to one more than the limit.
Requests == UNION {[1..n -> RawMessages] : n \in 0..(MAX_MESSAGES + 1)}

\* Inputs of the specification that exercises _wrap_text alone.
Alphabet == {"a", "W", " ", "\n"}

Texts == UNION {[1..n -> Alphabet] : n \in 0..MaxTextLen}

Widths == {0, 300, 704, 1200}

\* ------------------------------------------------------------------- state
VARIABLES
    pc,              \* where the /generate handler is
    has_data,        \* the JSON body is non-empty and has a 'messages' key
    data,            \* data['messages']
    messages,        \* the Message objects built and validated so far
    constructed,     \* Message(...) calls made
    status,          \* HTTP status of the response, 0 while there is none
    entered,         \* image_generator.generate has been called
    temp_imgs,       \* 1x1 measuring images allocated
    total_height,
    message_heights,
    measured,        \* wrapped_lines of each message in the measure loop
    img,             \* the final canvases allocated, each [width, height]
    current_y,
    starts,          \* current_y at the start of each draw iteration
    pastes,          \* img.paste calls
    name_draws,      \* draw.text calls of usernames
    text_draws,      \* draw.text calls of body lines
    drawn_lines,     \* wrapped_lines of each message in the draw loop
    avatar,          \* the last _get_avatar call: its input and its result
    result,          \* the image sent back, <<>> while there is none
    w_pc, w_text, w_width, w_lines, w_joined, w_relines

hvars == <<pc, has_data, data, messages, constructed, status, entered,
           temp_imgs, total_height, message_heights, measured, img, current_y,
           starts, pastes, name_draws, text_draws, drawn_lines, avatar, result>>

gvars == <<temp_imgs, total_height, message_heights, measured, img, current_y,
           starts, pastes, name_draws, text_draws, drawn_lines, avatar, result>>

wvars == <<w_pc, w_text, w_width, w_lines, w_joined, w_relines>>

vars == <<hvars, wvars>>

NoAvatar == [url |-> "", outcome |-> "none", raised |-> FALSE, tile |-> default_avatar]

HandlerInit ==
    /\ pc = "idle"
    /\ has_data = FALSE
    /\ data = <<>>
    /\ messages = <<>>
    /\ constructed = 0
    /\ status = 0
    /\ entered = FALSE
    /\ temp_imgs = 0
    /\ total_height = 0
    /\ message_heights = <<>>
    /\ measured = <<>>
    /\ img = <<>>
    /\ current_y = 0
    /\ starts = <<>>
    /\ pastes = <<>>
    /\ name_draws = <<>>
    /\ text_draws = <<>>
    /\ drawn_lines = <<>>
    /\ avatar = NoAvatar
    /\ result = <<>>

WrapOff ==
    /\ w_pc = "off"
    /\ w_text = <<>>
    /\ w_width = 0
    /\ w_lines = <<>>
    /\ w_joined = <<>>
    /\ w_relines = <<>>

Init == HandlerInit /\ WrapOff

\* ------------------------------------------------------------ /generate
\* request.get_json()
Receive ==
    /\ pc = "idle"
    /\ \/ has_data' = FALSE /\ data' = <<>>
       \/ has_data' = TRUE /\ data' \in Requests
    /\ pc' = "route"
    /\ UNCHANGED <<messages, constructed, status, entered, gvars, wvars>>

\* if not data or 'messages' not in data: 400
RejectNoData ==
    /\ pc = "route"
    /\ ~has_data
    /\ pc' = "done"
    /\ status' = 400
    /\ UNCHANGED <<has_data, data, messages, constructed, entered, gvars, wvars>>

\* if len(data['messages']) > Config.MAX_MESSAGES: 400
RejectTooMany ==
    /\ pc = "route"
    /\ has_data
    /\ too_many(Len(data))
    /\ pc' = "done"
    /\ status' = 400
    /\ UNCHANGED <<has_data, data, messages, constructed, entered, gvars, wvars>>

\* messages = []
BeginLoop ==
    /\ pc = "route"
    /\ has_data
    /\ ~too_many(Len(data))
    /\ pc' = "build"
    /\ messages' = <<>>
    /\ UNCHANGED <<has_data, data, constructed, status, entered, gvars, wvars>>

\* One iteration of the loop over data['messages']: construct, validate,
\* append; a KeyError or ValueError answers 400 at once.
BuildNext ==
    /\ pc = "build"
    /\ Len(messages) < Len(data)
    /\ LET msg_data == data[Len(messages) + 1]
           built == construct(msg_data)
           checked == validate(built.msg)
       IN IF built.raised
          THEN /\ pc' = "done"
               /\ status' = 400
               /\ UNCHANGED <<messages, constructed>>
          ELSE /\ constructed' = constructed + 1
               /\ IF checked.raised
                  THEN /\ pc' = "done"
                       /\ status' = 400
                       /\ UNCHANGED messages
                  ELSE /\ messages' = Append(messages, checked.msg)
                       /\ UNCHANGED <<pc, status>>
    /\ UNCHANGED <<has_data, data, entered, gvars, wvars>>

\* await image_generator.generate(messages), up to the measure loop:
\* total_height, message_heights and the 1x1 temp_img.
CallGenerate ==
    /\ pc = "build"
    /\ Len(messages) = Len(data)
    /\ pc' = "measure"
    /\ entered' = TRUE
    /\ total_height' = MESSAGE_PADDING
    /\ message_heights' = <<>>
    /\ temp_imgs' = temp_imgs + 1
    /\ UNCHANGED <<has_data, data, messages, constructed, status, measured, img,
                   current_y, starts, pastes, name_draws, text_draws,
                   drawn_lines, avatar, result, wvars>>

\* One iteration of the measure loop.
MeasureNext ==
    /\ pc = "measure"
    /\ Len(message_heights) < Len(messages)
    /\ LET message == messages[Len(message_heights) + 1]
           wrapped_lines == _wrap_text(message.message, WrapWidth)
       IN /\ measured' = Append(measured, wrapped_lines)
          /\ message_heights' = Append(message_heights, message_height(wrapped_lines))
          /\ total_height' = total_height + message_height(wrapped_lines)
    /\ UNCHANGED <<pc, has_data, data, messages, constructed, status, entered,
                   temp_imgs, img, current_y, starts, pastes, name_draws,
                   text_draws, drawn_lines, avatar, result, wvars>>

\* img = Image.new('RGB', (Config.MAX_WIDTH, total_height), ...) and
\* current_y = Config.MESSAGE_PADDING
AllocCanvas ==
    /\ pc = "measure"
    /\ Len(message_heights) = Len(messages)
    /\ pc' = "draw"
    /\ img' = Append(img, [width |-> MAX_WIDTH, height |-> total_height])
    /\ current_y' = MESSAGE_PADDING
    /\ UNCHANGED <<has_data, data, messages, constructed, status, entered,
                   temp_imgs, total_height, message_heights, measured, starts,
                   pastes, name_draws, text_draws, drawn_lines, avatar, result,
                   wvars>>

\* One iteration of the draw loop.  An exception leaves generate and is
\* answered 500 by generate_image.
DrawNext ==
    /\ pc = "draw"
    /\ Len(starts) < Len(messages)
    /\ \E outcome \in FetchOutcomes, size \in FetchedSizes :
         LET i == Len(starts) + 1
             got == _get_avatar(messages[i].avatar_url, outcome, size)
             drawn == draw_message(messages, i, current_y, got.tile)
         IN /\ avatar' = [url |-> messages[i].avatar_url, outcome |-> outcome,
                          raised |-> got.raised, tile |-> got.tile]
            /\ starts' = Append(starts, current_y)
            /\ IF got.raised
               THEN /\ pc' = "done"
                    /\ status' = 500
                    /\ UNCHANGED <<pastes, name_draws, text_draws, drawn_lines,
                                   current_y>>
               ELSE /\ pastes' = pastes \o drawn.pastes
                    /\ name_draws' = name_draws \o drawn.names
                    /\ text_draws' = text_draws \o drawn.texts
                    /\ IF drawn.raised
                       THEN /\ pc' = "done"
                            /\ status' = 500
                            /\ UNCHANGED <<drawn_lines, current_y>>
                       ELSE /\ drawn_lines' = Append(drawn_lines, drawn.lines)
                            /\ current_y' = current_y + message_heights[i]
                            /\ UNCHANGED <<pc, status>>
    /\ UNCHANGED <<has_data, data, messages, constructed, entered, temp_imgs,
                   total_height, message_heights, measured, img, result, wvars>>

\* img.save(...) and send_file(...)
Encode ==
    /\ pc = "draw"
    /\ Len(starts) = Len(messages)
    /\ pc' = "done"
    /\ status' = 200
    /\ result' = <<img[Len(img)]>>
    /\ UNCHANGED <<has_data, data, messages, constructed, entered, temp_imgs,
                   total_height, message_heights, measured, img, current_y,
                   starts, pastes, name_draws, text_draws, drawn_lines, avatar,
                   wvars>>

Next ==
    \/ Receive
    \/ RejectNoData
    \/ RejectTooMany
    \/ BeginLoop
    \/ BuildNext
    \/ CallGenerate
    \/ MeasureNext
    \/ AllocCanvas
    \/ DrawNext
    \/ Encode

Spec == Init /\ [][Next]_vars

\* ------------------------------------------------- _wrap_text on its own
InitWrap ==
    /\ HandlerInit
    /\ w_pc = "start"
    /\ w_text \in Texts
    /\ w_width \in Widths
    /\ w_lines = <<>>
    /\ w_joined = <<>>
    /\ w_relines = <<>>

\* lines = _wrap_text(text, max_width)
WrapFirst ==
    /\ w_pc = "start"
    /\ w_lines' = _wrap_text(w_text, w_width)
    /\ w_pc' = "wrapped"
    /\ UNCHANGED <<w_text, w_width, w_joined, w_relines, hvars>>

\* '\n'.join(lines)
Rejoin ==
    /\ w_pc = "wrapped"
    /\ w_joined' = join(<<"\n">>, w_lines)
    /\ w_pc' = "joined"
    /\ UNCHANGED <<w_text, w_width, w_lines, w_relines, hvars>>

\* _wrap_text of the joined lines at the same width
WrapAgain ==
    /\ w_pc = "joined"
    /\ w_relines' = _wrap_text(w_joined, w_width)
    /\ w_pc' = "rewrapped"
    /\ UNCHANGED <<w_text, w_width, w_lines, w_joined, hvars>>

NextWrap == WrapFirst \/ Rejoin \/ WrapAgain

SpecWrap == InitWrap /\ [][NextWrap]_vars

\* ----------------------------------------------------------------- claims
Range(s) == {s[k] : k \in DOMAIN s}

\* A record of the request with username and message present, the username
\* non-empty and the body within MAX_MESSAGE_LENGTH.
WellFormedRecord(r) ==
    /\ {"username", "message"} \subseteq r.keys
    /\ r.username # ""
    /\ Len(r.message) <= MAX_MESSAGE_LENGTH

\* The height one message is due: header, its body lines, spacing.
DueHeight(wrapped_lines) ==
    USERNAME_FONT_SIZE + Len(wrapped_lines) * (FONT_SIZE + 4) + MESSAGE_SPACING

RECURSIVE DueBefore(_, _)
\* MESSAGE_PADDING plus the due heights of the first n measured messages.
DueBefore(lines_of, n) ==
    IF n = 0 THEN MESSAGE_PADDING
    ELSE DueBefore(lines_of, n - 1) + DueHeight(lines_of[n])

\* The y at which the message after message i starts, the canvas height for
\* the last message.
SlotEnd(i) ==
    IF i < Len(starts) THEN starts[i + 1]
    ELSE IF i = Len(messages) THEN img[1].height
    ELSE current_y

\* Message i continues a run of messages of one username.
Continuation(i) == i > 1 /\ messages[i].username = messages[i - 1].username

\* C1: every request within the message limit whose records all carry a
\* non-empty username and a body within the length limit, whatever their
\* colour, timestamp and avatar URL, is answered with an image MAX_WIDTH wide
\* and more than 0 high.
C1_ValidRequestRenders ==
    (/\ pc = "done"
     /\ has_data
     /\ Len(data) <= MAX_MESSAGES
     /\ \A k \in 1..Len(data) : WellFormedRecord(data[k]))
    => (/\ status = 200
        /\ result # <<>>
        /\ result[1].width = MAX_WIDTH
        /\ result[1].height > 0)

C3_EmptyBodyOneLine ==
    \A i \in 1..Len(measured) :
        messages[i].message = <<>> =>
            /\ measured[i] = << <<>> >>
            /\ message_heights[i] >= USERNAME_FONT_SIZE + (FONT_SIZE + 4) + MESSAGE_SPACING

Unbroken(text) == [k \in 1..Len(text) |-> IF text[k] = "\n" THEN " " ELSE text[k]]

C5_WrapIdempotent ==
    w_pc = "rewrapped" => w_relines = w_lines

C5_Witness ==
    /\ w_pc = "rewrapped"
    /\ w_text = <<"a", " ", "a", " ", "a">>
    /\ w_width = 704
    /\ w_lines = << <<"a", " ", "a">>, <<"a">> >>
    /\ w_joined = <<"a", " ", "a", "\n", "a">>
    /\ w_relines = w_lines

\* C6: a request with more than MAX_MESSAGES messages is answered 400 with no
\* Message constructed, no measuring image and no canvas allocated, and
\* generate never called.
C6_TooManyRejectedFirst ==
    (has_data /\ Len(data) > MAX_MESSAGES) =>
        /\ pc \in {"route", "done"}
        /\ pc = "done" => status = 400
        /\ constructed = 0
        /\ messages = <<>>
        /\ ~entered
        /\ temp_imgs = 0
        /\ img = <<>>
        /\ result = <<>>

C6_Witness ==
    /\ pc = "done"
    /\ has_data
    /\ Len(data) = MAX_MESSAGES + 1
    /\ \A k \in 1..Len(data) : WellFormedRecord(data[k])
    /\ status = 400

\* C7: generate is called only after every record has been constructed and
\* validated, each Message then having a non-empty username, a body within
\* the limit and a colour starting with '#'; a request within the message
\* limit with one bad record is answered 400 without generate or an image.
C7_AllValidatedBeforeGenerate ==
    /\ entered =>
        /\ Len(messages) = Len(data)
        /\ constructed = Len(data)
        /\ \A k \in 1..Len(data) : WellFormedRecord(data[k])
        /\ \A k \in 1..Len(messages) :
              /\ messages[k].username # ""
              /\ Len(messages[k].message) <= MAX_MESSAGE_LENGTH
              /\ startswith_hash(messages[k].color)
    /\ (/\ pc = "done"
        /\ has_data
        /\ Len(data) <= MAX_MESSAGES
        /\ \E k \in 1..Len(data) : ~WellFormedRecord(data[k]))
       => (status = 400 /\ ~entered /\ img = <<>> /\ result = <<>>)

C7_Witness ==
    /\ pc = "done"
    /\ status = 400
    /\ Len(data) = 2
    /\ WellFormedRecord(data[1])
    /\ data[2].username = ""
    /\ "username" \in data[2].keys
    /\ Len(messages) = 1
    /\ ~entered

\* C8: _get_avatar never raises; with an empty URL, a non-200 answer, an
\* exception, a timeout or an undecodable body it returns the placeholder;
\* every tile pasted is AVATAR_SIZE square; every draw iteration begun has
\* pasted its avatar, and a request answered 500 failed on its colour.
C8_AvatarNeverFails ==
    /\ ~avatar.raised
    /\ avatar.tile.w = AVATAR_SIZE /\ avatar.tile.h = AVATAR_SIZE
    /\ (avatar.url = "" \/ avatar.outcome # "ok") => avatar.tile = default_avatar
    /\ \A p \in Range(pastes) : p.w = AVATAR_SIZE /\ p.h = AVATAR_SIZE
    /\ Len(pastes) = Len(starts)
    /\ status = 500 => get_color_rgb(messages[Len(starts)]).raised

C8_Witness ==
    /\ pc = "done"
    /\ status = 200
    /\ avatar.url = "u"
    /\ avatar.outcome = "timeout"
    /\ avatar.tile = default_avatar
    /\ Len(pastes) = Len(messages)

\* C9: at most one canvas is allocated, after all messages are measured and
\* before anything is drawn, MAX_WIDTH wide and MESSAGE_PADDING plus the due
\* heights of all messages high; each message is drawn with the lines it was
\* measured with, starting at MESSAGE_PADDING plus the due heights of the
\* messages before it; after the last message the cursor is at the canvas
\* height.
C9_CanvasSizedOnce ==
    /\ Len(img) <= 1
    /\ starts # <<>> => Len(img) = 1
    /\ pc = "draw" => Len(img) = 1
    /\ img # <<>> =>
        /\ Len(measured) = Len(messages)
        /\ img[1].width = MAX_WIDTH
        /\ img[1].height = DueBefore(measured, Len(messages))
    /\ \A i \in 1..Len(drawn_lines) : drawn_lines[i] = measured[i]
    /\ \A i \in 1..Len(starts) : starts[i] = DueBefore(measured, i - 1)
    /\ (pc = "done" /\ status = 200) =>
        /\ current_y = img[1].height
        /\ result = <<img[1]>>

C9_Witness ==
    /\ pc = "done"
    /\ status = 200
    /\ Len(messages) = 2
    /\ Len(measured[1]) = 2
    /\ Len(measured[2]) = 1
    /\ starts = <<20, 88>>
    /\ img = <<[width |-> 800, height |-> 138]>>

\* C10: the avatar tile and the body lines of every drawn message end at or
\* above the start of the next message, those of the last message at or above
\* the bottom of the canvas.
C10_DrawnInsideSlot ==
    \A i \in 1..Len(drawn_lines) :
        /\ \A p \in Range(pastes) : p.msg = i => p.y + AVATAR_SIZE <= SlotEnd(i)
        /\ \A t \in Range(text_draws) : t.msg = i => t.y + FONT_SIZE + 4 <= SlotEnd(i)

====
